---------------------------- MODULE Spec2Model ----------------------------
(***************************************************************************)
(* A model of chunker.js, the IELTS2GO video chunker: one run of the       *)
(* command line tool, from argument validation over the probe to the       *)
(* sequence of ffmpeg invocations (standard chunking or HLS) and the       *)
(* files the run writes.                                                   *)
(*                                                                         *)
(* Strings the program assembles (file names, playlist lines) are          *)
(* sequences of string pieces, template concatenation is \o.  JavaScript   *)
(* numbers are records [nan, val], so that NaN and its comparison rules    *)
(* are explicit.  Durations are counted in ticks of 1/TicksPerSecond       *)
(* seconds, chunk lengths in whole seconds as parseInt delivers them.      *)
(* The file system is assumed not to fail.                                 *)
(***************************************************************************)
EXTENDS Integers, Sequences, FiniteSets, TLC

(***************************************************************************)
(* Bounds of the model.                                                    *)
(***************************************************************************)
TicksPerSecond == 2
MaxDuration == 9
\* the long run: the number of its chunks, and of those done where the model
\* takes it up
LongJobs == 1001
LongDone == 900

(***************************************************************************)
(* JavaScript numbers.                                                     *)
(***************************************************************************)
Num(n) == [nan |-> FALSE, val |-> n]
NaN == [nan |-> TRUE, val |-> 0]

\* a <= b and a < b of JavaScript: false as soon as one side is NaN
JsLessEq(a, b) == ~a.nan /\ ~b.nan /\ a.val <= b.val
JsLess(a, b) == ~a.nan /\ ~b.nan /\ a.val < b.val

Digits == <<"0", "1", "2", "3", "4", "5", "6", "7", "8", "9">>
IsDigit(c) == \E d \in 1..10 : Digits[d] = c
DigitValue(c) == (CHOOSE d \in 1..10 : Digits[d] = c) - 1

\* the longest prefix of s that consists of digits
RECURSIVE DigitPrefix(_)
DigitPrefix(s) ==
  IF s = <<>> \/ ~IsDigit(Head(s)) THEN <<>>
  ELSE <<Head(s)>> \o DigitPrefix(Tail(s))

RECURSIVE DecimalValue(_)
DecimalValue(s) ==
  IF s = <<>> THEN 0
  ELSE 10 * DecimalValue(SubSeq(s, 1, Len(s) - 1)) + DigitValue(s[Len(s)])

\* parseInt(s, 10): optional sign, then the leading digits; NaN without digits
ParseInt(s) ==
  LET neg  == s # <<>> /\ Head(s) = "-"
      rest == IF s # <<>> /\ Head(s) \in {"-", "+"} THEN Tail(s) ELSE s
      ds   == DigitPrefix(rest)
  IN  IF ds = <<>> THEN NaN
      ELSE Num(IF neg THEN 0 - DecimalValue(ds) ELSE DecimalValue(ds))

\* String(n) for an integer n >= 0
RECURSIVE ToDecimal(_)
ToDecimal(n) ==
  IF n < 10 THEN <<Digits[n + 1]>>
  ELSE ToDecimal(n \div 10) \o <<Digits[(n % 10) + 1]>>

\* mutant of PadStart: (c.repeat(width) + s).slice(-width)
PadStartTruncate(s, width, c) ==
  LET padded == [k \in 1..width |-> c] \o s
  IN  SubSeq(padded, Len(padded) - width + 1, Len(padded))

\* s.padStart(width, c)
RECURSIVE PadStart(_, _, _)
PadStart(s, width, c) ==
  IF Len(s) >= width THEN s ELSE PadStart(<<c>> \o s, width, c)

(***************************************************************************)
(* The command line: program.args[0] and program.opts().                   *)
(***************************************************************************)
InputFiles ==
  { [given |-> FALSE, exists |-> FALSE, ext |-> ""],
    [given |-> TRUE,  exists |-> FALSE, ext |-> "mp4"],
    [given |-> TRUE,  exists |-> TRUE,  ext |-> "mkv"],
    [given |-> TRUE,  exists |-> TRUE,  ext |-> ""] }

LengthArgs ==
  { <<"6", "0">>, <<"2">>, <<"3", "x">>, <<"0">>, <<"-", "1">>,
    <<"a", "b", "c">> }

validPresets ==
  { "ultrafast", "superfast", "veryfast", "faster", "fast", "medium",
    "slow", "slower", "veryslow" }

QualityArgs == { "fast", "veryslow", "turbo" }

HlsSegmentArgs == { <<"4">>, <<"6">>, <<"0">>, <<"x">>, <<"-", "2">> }
HlsTypeArgs == { "vod", "none" }
Prefixes == { "ielts2go_chunk", "lesson" }
Directories == { "ielts2go_chunks" }

Options ==
  [ directory : Directories, length : LengthArgs, prefix : Prefixes,
    quality : QualityArgs, hls : BOOLEAN, hlsSegment : HlsSegmentArgs,
    hlsType : HlsTypeArgs ]

\* the options the program declares
DeclaredOptions ==
  { "-d", "--directory", "-l", "--length", "-p", "--prefix", "-q", "--quality",
    "--hls", "--hls-segment", "--hls-type", "--no-progress" }

\* the options of the README's table, without --help and --version
ReadmeOptions ==
  { "-d", "--output", "-l", "--length", "-p", "--prefix", "-q", "--quality",
    "-f", "--fast", "-e", "--encode", "--hls", "--hls-segment", "--hls-type",
    "--silent" }

\* what argv may hold: nothing, or an option of the README that options
\* does not hold already
ExtraOptions == { "", "--output", "-f", "--fast", "-e", "--encode", "--silent" }

DefaultHlsSegment == <<"4">>
DefaultHlsType == "vod"


(***************************************************************************)
(* What ffprobe can report: format.duration and the list of streams.       *)
(* A duration is a number of ticks, or absent, or the string "N/A".        *)
(***************************************************************************)
ProbeDurations ==
  { [kind |-> "number", ticks |-> t] :
      t \in (0..MaxDuration) \cup {60 * TicksPerSecond, 125 * TicksPerSecond} }
    \cup { [kind |-> "undefined", ticks |-> 0], [kind |-> "string", ticks |-> 0] }

VideoHD == [codec_type |-> "video", codec_name |-> "h264", width |-> 1920, height |-> 1080]
VideoSD == [codec_type |-> "video", codec_name |-> "mpeg4", width |-> 640, height |-> 360]
AudioAAC == [codec_type |-> "audio", codec_name |-> "aac", width |-> 0, height |-> 0]

ProbeStreams ==
  { <<AudioAAC>>, <<VideoHD, AudioAAC>>, <<AudioAAC, VideoSD, VideoHD>> }

\* !x of JavaScript for a duration value
Falsy(d) == d.kind = "undefined" \/ (d.kind = "number" /\ d.ticks = 0)

\* the index of the last stream of the type, 0 if none
FindLastStream(streams, type) ==
  IF \E k \in 1..Len(streams) : streams[k].codec_type = type
  THEN CHOOSE k \in 1..Len(streams) :
         /\ streams[k].codec_type = type
         /\ \A j \in (k + 1)..Len(streams) : streams[j].codec_type # type
  ELSE 0

\* streams.find(stream => stream.codec_type === type): index of the first, 0 if none
FindStream(streams, type) ==
  IF \E k \in 1..Len(streams) : streams[k].codec_type = type
  THEN CHOOSE k \in 1..Len(streams) :
         /\ streams[k].codec_type = type
         /\ \A j \in 1..(k - 1) : streams[j].codec_type # type
  ELSE 0

NoMetadata ==
  [ duration |-> [kind |-> "undefined", ticks |-> 0], hasVideo |-> FALSE,
    hasAudio |-> FALSE, videoCodec |-> "", audioCodec |-> "", resolution |-> <<>> ]

\* the object getVideoMetadata resolves with
VideoMetadata(duration, streams) ==
  LET v == FindStream(streams, "video")
      a == FindStream(streams, "audio")
  IN  [ duration   |-> duration,
        hasVideo   |-> v # 0,
        hasAudio   |-> a # 0,
        videoCodec |-> IF v # 0 THEN streams[v].codec_name ELSE "",
        audioCodec |-> IF a # 0 THEN streams[a].codec_name ELSE "",
        resolution |-> IF v # 0
                       THEN ToDecimal(streams[v].width) \o <<"x">>
                              \o ToDecimal(streams[v].height)
                       ELSE <<"Unknown">> ]

(***************************************************************************)
(* The state of one run.                                                   *)
(***************************************************************************)
VARIABLES
  inputFile,     \* program.args[0]
  argv,          \* an option of process.argv beyond those held in options
  options,       \* program.opts()
  pc,            \* where run() stands
  exitCode,      \* the code the process exited with, NotExited while it runs
  outputConfig,  \* the mode and format chosen
  metadata,      \* the probe's result
  numChunks,     \* processChunks: the number of chunks planned
  i,             \* processChunks: the loop index
  invocations,   \* every ffmpeg invocation started, in order
  results,       \* per invocation: "running", "end" or "error"
  probeCalls,    \* the number of ffprobe calls made
  files,         \* the paths this run has created
  master,        \* the text of the master playlist, <<>> while not written
  validationError, \* the error validateInput logged, "" when none
  probeData      \* metadata.streams as ffprobe delivered them

vars ==
  << inputFile, options, argv, pc, exitCode, outputConfig, metadata, numChunks, i,
     invocations, results, probeCalls, files, master, validationError,
     probeData >>

NotExited == -1

NoConfig ==
  [mode |-> "none", extension |-> "", segmentLength |-> NaN, playlistType |-> ""]

chunkLength == ParseInt(options.length)
qualityPreset == options.quality
filePrefix == options.prefix
outputDir == options.directory


Init ==
  /\ inputFile \in InputFiles
  /\ argv \in ExtraOptions
  /\ options \in Options
  \* --hls-segment and --hls-type only matter with --hls
  /\ ~options.hls => /\ options.hlsSegment = DefaultHlsSegment
                     /\ options.hlsType = DefaultHlsType
  /\ pc = "start"
  /\ exitCode = NotExited
  /\ outputConfig = NoConfig
  /\ metadata = NoMetadata
  /\ numChunks = Num(0)
  /\ i = 0
  /\ invocations = <<>>
  /\ results = <<>>
  /\ probeCalls = 0
  /\ files = {}
  /\ master = <<>>
  /\ validationError = ""
  /\ probeData = <<>>

\* the invocations that have neither signalled 'end' nor 'error'
InFlight == { k \in DOMAIN results : results[k] = "running" }

Running == exitCode = NotExited

\* mutant of ValidateInput: the chunk length test written < 0
ValidateInputStrict ==
  IF ~inputFile.given THEN 1
  ELSE IF ~inputFile.exists THEN 1
  ELSE IF JsLess(chunkLength, Num(0)) THEN 1
  ELSE NotExited

(***************************************************************************)
(* validateInput: the exit code it ends the process with, NotExited when    *)
(* it returns.  An invalid preset only logs a warning.                      *)
(***************************************************************************)
ValidateInput ==
  IF ~inputFile.given THEN 1
  ELSE IF ~inputFile.exists THEN 1
  ELSE IF JsLessEq(chunkLength, Num(0)) THEN 1
  ELSE NotExited

\* validateInput with the chunk length checked first
ValidationErrorLengthFirst ==
  IF JsLessEq(chunkLength, Num(0))
  THEN "Chunk length must be greater than 0 seconds."
  ELSE IF ~inputFile.given THEN "No input file specified."
  ELSE IF ~inputFile.exists THEN "Input file not found"
  ELSE ""

\* validateInput: the error it logs before it exits, "" when it returns
ValidationError ==
  IF ~inputFile.given THEN "No input file specified."
  ELSE IF ~inputFile.exists THEN "Input file not found"
  ELSE IF JsLessEq(chunkLength, Num(0))
  THEN "Chunk length must be greater than 0 seconds."
  ELSE ""

\* program.parse(process.argv): an option that is not declared ends the
\* process with code 1
ParseArgv == IF argv = "" \/ argv \in DeclaredOptions THEN NotExited ELSE 1

\* the preset handed to ffmpeg in re-encode mode
EncodePreset == qualityPreset

(***************************************************************************)
(* File names.                                                             *)
(***************************************************************************)
MetadataPath == <<outputDir, "/", "ielts2go_metadata.json">>
HlsDir == <<outputDir, "/", "hls">>
PlaylistPath == HlsDir \o <<"/", filePrefix, ".m3u8">>
SegmentPattern == HlsDir \o <<"/", filePrefix, "_%03d.ts">>
MasterPlaylistPath == <<outputDir, "/", filePrefix, "_master.m3u8">>
PlayerPath == <<outputDir, "/", "player.html">>
ReadmePath == <<outputDir, "/", "PLAYBACK.md">>

\* mutant of OutputFilename: the number is the 0-based index
OutputFilenameZeroBased(k, extension) ==
  <<filePrefix, "_">> \o PadStart(ToDecimal(k), 3, "0") \o <<".", extension>>

OutputFilename(k, extension) ==
  <<filePrefix, "_">> \o PadStart(ToDecimal(k + 1), 3, "0") \o <<".", extension>>

OutputPath(k, extension) == <<outputDir, "/">> \o OutputFilename(k, extension)

(***************************************************************************)
(* processChunks, standard mode.                                           *)
(***************************************************************************)
\* mutant of NumChunks: Math.floor(...) + 1 in place of Math.ceil
NumChunksExtra(duration, length) ==
  IF duration.kind # "number" \/ length.nan \/ length.val <= 0 THEN NaN
  ELSE Num((duration.ticks \div (length.val * TicksPerSecond)) + 1)

\* mutant of NumChunks: Math.floor in place of Math.ceil
NumChunksFloor(duration, length) ==
  IF duration.kind # "number" \/ length.nan \/ length.val <= 0 THEN NaN
  ELSE Num(duration.ticks \div (length.val * TicksPerSecond))

\* Math.ceil(totalDuration / chunkLength); a zero chunk length (Infinity)
\* does not get past validateInput
NumChunks(duration, length) ==
  IF duration.kind # "number" \/ length.nan \/ length.val = 0 THEN NaN
  ELSE LET den == length.val * TicksPerSecond
       IN  IF den > 0
           THEN Num(IF duration.ticks % den = 0 THEN duration.ticks \div den
                    ELSE (duration.ticks \div den) + 1)
           ELSE Num(0 - (duration.ticks \div (0 - den)))

\* the loop test i < numChunks
LoopTest(k, n) == JsLess(Num(k), n)

\* mutant of NextIndex: the index advances by two
NextIndexSkip(k) == k + 2

\* the loop's i++
NextIndex(k) == k + 1

\* mutant of ChunkStartTime: the offset of the chunk after this one
ChunkStartTimeNext(k) == (k + 1) * chunkLength.val

\* const chunkStartTime = i * chunkLength
ChunkStartTime(k) == k * chunkLength.val

\* the command built for chunk k: seekInput, duration, outputOptions, output
ChunkInvocation(k, config) ==
  [ kind         |-> "chunk",
    index        |-> k,
    seek         |-> ChunkStartTime(k),
    duration     |-> chunkLength.val,
    codec        |-> IF config.mode = "copy" THEN "copy" ELSE "libx264",
    preset       |-> IF config.mode = "copy" THEN "" ELSE EncodePreset,
    hlsTime      |-> NaN,
    playlistType |-> "",
    output       |-> OutputPath(k, config.extension) ]

\* run() returns: the process ends with code 0
Finish ==
  /\ pc' = "done"
  /\ exitCode' = 0

\* mutant of Exit: the process ends with code 0
ExitSuccess(code, at) ==
  /\ pc' = at
  /\ exitCode' = 0

\* process.exit(code), or the catch block of run() with code 1
Exit(code, at) ==
  /\ pc' = at
  /\ exitCode' = code

\* the head of the for loop at index k with n chunks planned: start the
\* invocation of chunk k and await it, or leave the loop and finish
Loop(k, n, config, done) ==
  /\ i' = k
  /\ IF LoopTest(k, n)
     THEN /\ invocations' = Append(invocations, ChunkInvocation(k, config))
          /\ results' = Append(done, "running")
          /\ pc' = "chunk"
          /\ exitCode' = NotExited
     ELSE /\ invocations' = invocations
          /\ results' = done
          /\ Finish

(***************************************************************************)
(* processHLSStream, tryLastResortHLSConversion and createMasterPlaylist.  *)
(***************************************************************************)
\* parseInt(options.hlsSegment, 10) || 4
HlsSegmentLength(arg) ==
  LET n == ParseInt(arg) IN IF n.nan \/ n.val = 0 THEN Num(4) ELSE n

\* options.hlsType || 'vod'
HlsPlaylistType(arg) == IF arg = "" THEN "vod" ELSE arg

PrimaryInvocation(config) ==
  [ kind         |-> "hls",
    index        |-> 0,
    seek         |-> 0,
    duration     |-> 0,
    codec        |-> "libx264",
    preset       |-> "ultrafast",
    hlsTime      |-> config.segmentLength,
    playlistType |-> IF config.playlistType # "" /\ config.playlistType # "none"
                     THEN config.playlistType ELSE "",
    output       |-> PlaylistPath ]

\* mutant of FallbackInvocation: segment length and playlist type as configured
FallbackInvocationConfigured ==
  [ kind         |-> "hls_fallback",
    index        |-> 0,
    seek         |-> 0,
    duration     |-> 0,
    codec        |-> "libx264",
    preset       |-> "ultrafast",
    hlsTime      |-> outputConfig.segmentLength,
    playlistType |-> outputConfig.playlistType,
    output       |-> PlaylistPath ]

FallbackInvocation ==
  [ kind         |-> "hls_fallback",
    index        |-> 0,
    seek         |-> 0,
    duration     |-> 0,
    codec        |-> "libx264",
    preset       |-> "ultrafast",
    hlsTime      |-> Num(4),
    playlistType |-> "",
    output       |-> PlaylistPath ]

\* mutant of MasterPlaylistContent: the variant is named without its directory
MasterPlaylistContentNoDir(resolution) ==
  << <<"#EXTM3U">>,
     <<"#EXT-X-VERSION:3">>,
     <<"#EXT-X-STREAM-INF:BANDWIDTH=", "2800000", ",RESOLUTION=">>
        \o (IF resolution = <<>> THEN <<"1280x720">> ELSE resolution),
     <<filePrefix, ".m3u8">> >>

\* the text of the master playlist; resolution is <<>> when the metadata
\* object handed to createMasterPlaylist has none
MasterPlaylistContent(resolution) ==
  << <<"#EXTM3U">>,
     <<"#EXT-X-VERSION:3">>,
     <<"#EXT-X-STREAM-INF:BANDWIDTH=", "2800000", ",RESOLUTION=">>
        \o (IF resolution = <<>> THEN <<"1280x720">> ELSE resolution),
     <<"hls/", filePrefix, ".m3u8">> >>

\* createMasterPlaylist, with the createHLSPlayer call that ends it
CreateMasterPlaylist(resolution) ==
  /\ master' = MasterPlaylistContent(resolution)
  /\ files' = files \cup {MasterPlaylistPath, PlayerPath, ReadmePath}

(***************************************************************************)
(* run().                                                                  *)
(***************************************************************************)
\* getVideoMetadata is called and awaited
StartProbe ==
  /\ pc' = "probe"
  /\ probeCalls' = probeCalls + 1

\* the synchronous start of the program: program.parse, then run() up to its
\* first await: validateInput, then the --hls branch with the probe call, or
\* the first prompt of setupOutput
RunStart ==
  /\ Running
  /\ pc = "start"
  /\ IF ParseArgv # NotExited
     THEN /\ Exit(ParseArgv, "exit_parse")
          /\ UNCHANGED <<outputConfig, probeCalls>>
     ELSE IF ValidateInput # NotExited
     THEN /\ Exit(ValidateInput, "exit_validation")
          /\ UNCHANGED <<outputConfig, probeCalls>>
     ELSE IF options.hls
     THEN /\ outputConfig' =
               [ mode          |-> "hls",
                 extension     |-> "ts",
                 segmentLength |-> HlsSegmentLength(options.hlsSegment),
                 playlistType  |-> HlsPlaylistType(options.hlsType) ]
          /\ StartProbe
          /\ UNCHANGED exitCode
     ELSE /\ pc' = "prompt_mode"
          /\ UNCHANGED <<exitCode, outputConfig, probeCalls>>
  /\ validationError' = IF ParseArgv = NotExited THEN ValidationError
                        ELSE validationError
  /\ UNCHANGED <<inputFile, options, argv, probeData, metadata, numChunks, i,
                 invocations, results, files, master>>

\* path.extname(inputFile).slice(1).toLowerCase() || 'mp4'
OriginalExtension == IF inputFile.ext = "" THEN "mp4" ELSE inputFile.ext

\* setupOutput returns config; run() goes on to the probe
SetupDone(config) ==
  /\ outputConfig' = config
  /\ StartProbe
  /\ UNCHANGED <<inputFile, options, argv, validationError, probeData,
                 exitCode, metadata, numChunks, i,
                 invocations, results, files, master>>

SetupNext(prompt) ==
  /\ pc' = prompt
  /\ UNCHANGED <<inputFile, options, argv, validationError, probeData,
                 exitCode, outputConfig, metadata,
                 numChunks, i, invocations, results, probeCalls, files, master>>

\* setupOutput: the answer to 'Choose processing mode'
AnswerMode(mode) ==
  /\ Running
  /\ pc = "prompt_mode"
  /\ CASE mode = "encode" -> SetupNext("prompt_format")
       [] mode = "hls"    -> SetupNext("prompt_hls")
       [] OTHER           ->
            SetupDone([ mode |-> "copy", extension |-> OriginalExtension,
                        segmentLength |-> NaN, playlistType |-> "" ])

Formats == { "mp4", "mkv", "avi", "mov", "custom" }
CustomExtensions == { "webm" }

\* setupOutput: the answer to 'Choose output video format'
AnswerFormat(extension) ==
  /\ Running
  /\ pc = "prompt_format"
  /\ IF extension = "custom"
     THEN SetupNext("prompt_custom")
     ELSE SetupDone([ mode |-> "encode", extension |-> extension,
                      segmentLength |-> NaN, playlistType |-> "" ])

\* setupOutput: the answer to 'Enter custom file extension'
AnswerCustomFormat(extension) ==
  /\ Running
  /\ pc = "prompt_custom"
  /\ SetupDone([ mode |-> "encode", extension |-> extension,
                 segmentLength |-> NaN, playlistType |-> "" ])

\* setupOutput: the answers to the two HLS questions
AnswerHls(segmentLength, playlistType) ==
  /\ Running
  /\ pc = "prompt_hls"
  /\ SetupDone([ mode |-> "hls", extension |-> "ts",
                 segmentLength |-> Num(segmentLength),
                 playlistType |-> playlistType ])

\* getVideoMetadata rejects after the output directory was created
ProbeErrorAfterDirectory ==
  /\ Running
  /\ pc = "probe"
  /\ Exit(1, "exit_probe")
  /\ files' = files \cup {<<outputDir>>, MetadataPath}
  /\ UNCHANGED <<inputFile, options, argv, validationError, probeData,
                 outputConfig, metadata, numChunks, i,
                 invocations, results, probeCalls, master>>

\* ffprobe reports an error: the promise rejects, run() catches, exit 1
ProbeError ==
  /\ Running
  /\ pc = "probe"
  /\ Exit(1, "exit_probe")
  /\ UNCHANGED <<inputFile, options, argv, validationError, probeData,
                 outputConfig, metadata, numChunks, i,
                 invocations, results, probeCalls, files, master>>

\* ffprobe delivers: the duration check, createOutputDirectory, and
\* processChunks up to its first await
ProbeEnd(duration, streams) ==
  /\ Running
  /\ pc = "probe"
  /\ probeData' = streams
  /\ metadata' = VideoMetadata(duration, streams)
  /\ IF Falsy(duration)
     THEN /\ Exit(1, "exit_no_duration")
          /\ UNCHANGED <<numChunks, i, invocations, results, files>>
     ELSE IF outputConfig.mode = "hls"
     THEN /\ files' = files \cup {<<outputDir>>, MetadataPath, HlsDir}
          /\ invocations' = Append(invocations, PrimaryInvocation(outputConfig))
          /\ results' = Append(results, "running")
          /\ pc' = "hls_primary"
          /\ UNCHANGED <<exitCode, numChunks, i>>
     ELSE /\ files' = files \cup {<<outputDir>>, MetadataPath}
          /\ numChunks' = NumChunks(duration, chunkLength)
          /\ Loop(0, numChunks', outputConfig, results)
  /\ UNCHANGED <<inputFile, options, argv, validationError, outputConfig,
                 probeCalls, master>>

\* results with the invocation awaited marked as ended or failed
Settled(outcome) == [results EXCEPT ![Len(results)] = outcome]

\* the 'end' handler of chunk i: resolve, i++, and the loop goes on
ChunkEnd ==
  /\ Running
  /\ pc = "chunk"
  /\ files' = files \cup {invocations[Len(invocations)].output}
  /\ Loop(NextIndex(i), numChunks, outputConfig, Settled("end"))
  /\ UNCHANGED <<inputFile, options, argv, validationError, probeData,
                 outputConfig, metadata, numChunks,
                 probeCalls, master>>

\* mutant of ChunkError: the failure is logged and the loop goes on
ChunkErrorContinue ==
  /\ Running
  /\ pc = "chunk"
  /\ Loop(NextIndex(i), numChunks, outputConfig, Settled("error"))
  /\ UNCHANGED <<inputFile, options, argv, validationError, probeData,
                 outputConfig, metadata, numChunks,
                 probeCalls, files, master>>

\* mutant of ChunkError: the chunks written so far are removed before exit
ChunkErrorCleanup ==
  /\ Running
  /\ pc = "chunk"
  /\ results' = Settled("error")
  /\ files' = {<<outputDir>>, MetadataPath}
  /\ Exit(1, "exit_chunk")
  /\ UNCHANGED <<inputFile, options, argv, validationError, probeData,
                 outputConfig, metadata, numChunks, i,
                 invocations, probeCalls, master>>

\* the 'error' handler of chunk i: reject, run() catches, exit 1
ChunkError ==
  /\ Running
  /\ pc = "chunk"
  /\ results' = Settled("error")
  /\ Exit(1, "exit_chunk")
  /\ UNCHANGED <<inputFile, options, argv, validationError, probeData,
                 outputConfig, metadata, numChunks, i,
                 invocations, probeCalls, files, master>>

\* the 'end' handler of the primary HLS invocation
HlsEnd ==
  /\ Running
  /\ pc = "hls_primary"
  /\ results' = Settled("end")
  /\ CreateMasterPlaylist(metadata.resolution)
  /\ Finish
  /\ UNCHANGED <<inputFile, options, argv, validationError, probeData,
                 outputConfig, metadata, numChunks, i,
                 invocations, probeCalls>>

\* mutant of HlsError: the failure is surfaced without a fallback
HlsErrorNoFallback ==
  /\ Running
  /\ pc = "hls_primary"
  /\ results' = Settled("error")
  /\ Exit(1, "exit_hls")
  /\ UNCHANGED <<inputFile, options, argv, validationError, probeData,
                 outputConfig, metadata, numChunks, i,
                 invocations, probeCalls, files, master>>

\* mutant of HlsError: the handler only logs, the promise is never settled
HlsErrorHangs ==
  /\ Running
  /\ pc = "hls_primary"
  /\ results' = Settled("error")
  /\ pc' = "hls_hung"
  /\ UNCHANGED <<inputFile, options, argv, validationError, probeData,
                 exitCode, outputConfig, metadata,
                 numChunks, i, invocations, probeCalls, files, master>>

\* the 'error' handler of the primary HLS invocation: the last resort starts
HlsError ==
  /\ Running
  /\ pc = "hls_primary"
  /\ invocations' = Append(invocations, FallbackInvocation)
  /\ results' = Append(Settled("error"), "running")
  /\ pc' = "hls_fallback"
  /\ UNCHANGED <<inputFile, options, argv, validationError, probeData,
                 exitCode, outputConfig, metadata,
                 numChunks, i, probeCalls, files, master>>

\* mutant of FallbackEnd: resolve without createMasterPlaylist
FallbackEndNoArtifacts ==
  /\ Running
  /\ pc = "hls_fallback"
  /\ results' = Settled("end")
  /\ Finish
  /\ UNCHANGED <<inputFile, options, argv, validationError, probeData,
                 outputConfig, metadata, numChunks, i,
                 invocations, probeCalls, files, master>>

\* the 'end' handler of the last resort invocation
FallbackEnd ==
  /\ Running
  /\ pc = "hls_fallback"
  /\ results' = Settled("end")
  /\ CreateMasterPlaylist(<<>>)
  /\ Finish
  /\ UNCHANGED <<inputFile, options, argv, validationError, probeData,
                 outputConfig, metadata, numChunks, i,
                 invocations, probeCalls>>

\* mutant of FallbackError: the primary invocation is tried again
FallbackErrorRestart ==
  /\ Running
  /\ pc = "hls_fallback"
  /\ invocations' = Append(invocations, PrimaryInvocation(outputConfig))
  /\ results' = Append(Settled("error"), "running")
  /\ pc' = "hls_primary"
  /\ UNCHANGED <<inputFile, options, argv, validationError, probeData,
                 exitCode, outputConfig, metadata,
                 numChunks, i, probeCalls, files, master>>

\* mutant of FallbackError: the promise is resolved instead of rejected
FallbackErrorResolves ==
  /\ Running
  /\ pc = "hls_fallback"
  /\ results' = Settled("error")
  /\ Finish
  /\ UNCHANGED <<inputFile, options, argv, validationError, probeData,
                 outputConfig, metadata, numChunks, i,
                 invocations, probeCalls, files, master>>

\* the 'error' handler of the last resort invocation: reject, catch, exit 1
FallbackError ==
  /\ Running
  /\ pc = "hls_fallback"
  /\ results' = Settled("error")
  /\ Exit(1, "exit_hls")
  /\ UNCHANGED <<inputFile, options, argv, validationError, probeData,
                 outputConfig, metadata, numChunks, i,
                 invocations, probeCalls, files, master>>

\* mutant of Sigint: the handler removes what the run has written
SigintCleanup ==
  /\ Running
  /\ pc # "start"
  /\ exitCode' = 0
  /\ files' = {}
  /\ UNCHANGED <<inputFile, options, argv, validationError, probeData,
                 pc, outputConfig, metadata, numChunks, i,
                 invocations, results, probeCalls, master>>

\* the SIGINT handler: process.exit(0), wherever run() stands.  It is
\* registered in the same synchronous block that calls run(), so it cannot
\* act before run() has reached its first await
Sigint ==
  /\ Running
  /\ pc # "start"
  /\ exitCode' = 0
  /\ UNCHANGED <<inputFile, options, argv, validationError, probeData,
                 pc, outputConfig, metadata, numChunks, i,
                 invocations, results, probeCalls, files, master>>

Next ==
  \/ RunStart
  \/ \E mode \in {"copy", "encode", "hls"} : AnswerMode(mode)
  \/ \E extension \in Formats : AnswerFormat(extension)
  \/ \E extension \in CustomExtensions : AnswerCustomFormat(extension)
  \/ \E segmentLength \in {2, 4, 6, 10}, playlistType \in {"vod", "live"} :
       AnswerHls(segmentLength, playlistType)
  \/ ProbeError
  \/ \E duration \in ProbeDurations, streams \in ProbeStreams :
       ProbeEnd(duration, streams)
  \/ ChunkEnd
  \/ ChunkError
  \/ HlsEnd
  \/ HlsError
  \/ FallbackEnd
  \/ FallbackError
  \/ Sigint

Spec == Init /\ [][Next]_vars

\* the user answering a prompt
Answers ==
  \/ \E mode \in {"copy", "encode", "hls"} : AnswerMode(mode)
  \/ \E extension \in Formats : AnswerFormat(extension)
  \/ \E extension \in CustomExtensions : AnswerCustomFormat(extension)
  \/ \E segmentLength \in {2, 4, 6, 10}, playlistType \in {"vod", "live"} :
       AnswerHls(segmentLength, playlistType)

\* ffprobe or ffmpeg signalling the end or the failure of an invocation
Signals ==
  \/ ProbeError
  \/ \E duration \in ProbeDurations, streams \in ProbeStreams :
       ProbeEnd(duration, streams)
  \/ ChunkEnd
  \/ ChunkError
  \/ HlsEnd
  \/ HlsError
  \/ FallbackEnd
  \/ FallbackError

\* the runs with the default prefix and preset, which play no part in the
\* control flow
FairInit ==
  /\ Init
  /\ options.prefix = "ielts2go_chunk"
  /\ options.quality = "fast"

\* run() is started, every prompt is answered, and every invocation awaited
\* signals 'end' or 'error'; an interrupt may or may not come
FairSpec ==
  /\ FairInit
  /\ [][Next]_vars
  /\ WF_vars(RunStart)
  /\ WF_vars(Answers)
  /\ WF_vars(Signals)

(***************************************************************************)
(* Shorthands of the properties.                                           *)
(***************************************************************************)
StandardMode == outputConfig.mode \in {"copy", "encode"}
HlsMode == outputConfig.mode = "hls"

\* the probe delivered a duration > 0 and the chunk length is > 0
PositiveInputs ==
  /\ metadata.duration.kind = "number"
  /\ metadata.duration.ticks > 0
  /\ ~chunkLength.nan
  /\ chunkLength.val > 0

\* processChunks has been entered in standard mode
Chunking == StandardMode /\ pc \in {"chunk", "done", "exit_chunk"}

ChunkTicks == chunkLength.val * TicksPerSecond

\* C1: for a probed duration > 0 and a chunk length > 0 standard mode plans
\* exactly ceil(duration / chunkLength) jobs (the least count c with
\* duration <= c * chunkLength), a completed run has started exactly that
\* many, job k starts at k * chunkLength, and the start offsets increase
\* strictly; duration 60 with chunk length 60 gives one job starting at 0.
C1_PlanCount ==
  (Chunking /\ PositiveInputs) =>
    /\ ~numChunks.nan
    /\ (numChunks.val - 1) * ChunkTicks < metadata.duration.ticks
    /\ metadata.duration.ticks <= numChunks.val * ChunkTicks
    /\ Len(invocations) <= numChunks.val
    /\ pc = "done" => Len(invocations) = numChunks.val
    /\ \A k \in DOMAIN invocations :
         /\ invocations[k].kind = "chunk"
         /\ invocations[k].index = k - 1
         /\ invocations[k].seek = (k - 1) * chunkLength.val
         /\ \A j \in 1..(k - 1) : invocations[j].seek < invocations[k].seek
    /\ ( /\ metadata.duration.ticks = 60 * TicksPerSecond
         /\ chunkLength.val = 60
         /\ pc = "done" )
       => (Len(invocations) = 1 /\ invocations[1].seek = 0)

C1_Witness ==
  /\ Chunking /\ PositiveInputs /\ pc = "done"
  /\ Len(invocations) >= 3
  /\ metadata.duration.ticks % ChunkTicks # 0

\* C2: in standard mode at most one invocation is in flight; the invocation
\* of a job is started only after the one before it has signalled 'end', and
\* the job index advances by exactly one from one invocation to the next.
C2_Sequential ==
  StandardMode =>
    /\ Cardinality(InFlight) <= 1
    /\ \A k \in DOMAIN invocations :
         /\ k < Len(invocations) => results[k] = "end"
         /\ invocations[k].index = k - 1
    /\ pc = "chunk" => (InFlight = {Len(invocations)} /\ i = Len(invocations) - 1)

C2_Witness ==
  /\ StandardMode /\ pc = "chunk"
  /\ Len(invocations) >= 3
  /\ InFlight = {Len(invocations)}

\* C3: in standard mode an invocation that signals an error is the last one
\* of the run: no job after it is started, its job is not started again, the
\* run has made exactly k + 1 invocations for the failed job k, and the
\* process has exited with code 1.
C3_AbortOnError ==
  \A p \in DOMAIN results :
    (invocations[p].kind = "chunk" /\ results[p] = "error") =>
      /\ Len(invocations) = p
      /\ invocations[p].index = p - 1
      /\ Cardinality({q \in DOMAIN invocations :
                        invocations[q].index = invocations[p].index}) = 1
      /\ pc = "exit_chunk"
      /\ exitCode = 1

C3_Witness ==
  /\ StandardMode /\ pc = "exit_chunk"
  /\ Len(invocations) >= 2
  /\ Len(invocations) < numChunks.val
  /\ results[Len(results)] = "error"

Artifacts == {MasterPlaylistPath, PlayerPath, ReadmePath}

\* C4: an HLS run makes at most two invocation attempts: a failed primary is
\* followed by exactly one fallback, a failed fallback by nothing, and a
\* primary that succeeds stays the only attempt.
C4_OneFallback ==
  HlsMode =>
    /\ Len(invocations) <= 2
    /\ \A k \in DOMAIN invocations :
         invocations[k].kind = (IF k = 1 THEN "hls" ELSE "hls_fallback")
    /\ (Len(results) >= 1 /\ results[1] = "error") => Len(invocations) = 2
    /\ (Len(results) >= 1 /\ results[1] = "end") => Len(invocations) = 1
    /\ Len(invocations) = 2 => results[1] = "error"

C4_Witness ==
  /\ HlsMode
  /\ Len(invocations) = 2
  /\ results = <<"error", "error">>

\* the state of the HLS invoker, read off the position of run()
HlsState ==
  IF ~HlsMode \/ invocations = <<>> THEN "Idle"
  ELSE CASE pc = "hls_primary"  -> "PrimaryAttempt"
         [] pc = "hls_fallback" -> "Fallback"
         [] pc = "done"         -> "Success"
         [] pc = "exit_hls"     -> "Failed"
         [] OTHER               -> "Unknown"

HlsTransitions ==
  { <<"Idle", "PrimaryAttempt">>, <<"PrimaryAttempt", "Success">>,
    <<"PrimaryAttempt", "Fallback">>, <<"Fallback", "Success">>,
    <<"Fallback", "Failed">> }

\* C5: an HLS run moves Idle -> PrimaryAttempt -> {Success, Fallback ->
\* {Success, Failed}} and in no other way; an attempt is left only in the step
\* in which its invocation signals 'end' or 'error'; Failed is reached only
\* after the primary and the fallback invocation have both run and failed.
C5_StateMachine ==
  /\ [](HlsState # "Unknown")
  /\ [](HlsState = "Failed" => results = <<"error", "error">>)
  /\ [][ HlsState' # HlsState =>
           /\ <<HlsState, HlsState'>> \in HlsTransitions
           /\ HlsState \in {"PrimaryAttempt", "Fallback"} =>
                /\ results[Len(results)] = "running"
                /\ results'[Len(results)] # "running" ]_vars

C5_Witness == HlsState = "Failed" /\ results = <<"error", "error">>

\* C6: once an HLS attempt has signalled 'end' the run has ended in success
\* (exit code 0) with the master playlist, player.html and PLAYBACK.md
\* written; none of the three exists before an attempt has signalled 'end',
\* and the HLS step never reports success without them.
C6_ArtifactsOnSuccess ==
  HlsMode =>
    /\ (\E p \in DOMAIN results : results[p] = "end") =>
         /\ pc = "done"
         /\ exitCode = 0
         /\ Artifacts \subseteq files
         /\ master # <<>>
    /\ (Artifacts \cap files # {} \/ master # <<>>) =>
         results[Len(results)] = "end"
    /\ pc = "done" => Artifacts \subseteq files

C6_Witness ==
  /\ HlsMode
  /\ results = <<"error", "end">>
  /\ pc = "done"
  /\ Artifacts \subseteq files

\* C7: when the primary and the fallback HLS invocation have both failed the
\* process has exited with code 1, and from the failure of the primary on
\* neither the master playlist nor the player page has been written.
C7_NoArtifactsOnFailure ==
  (HlsMode /\ Len(results) >= 1 /\ results[1] = "error") =>
    /\ results[Len(results)] # "end" =>
         /\ MasterPlaylistPath \notin files
         /\ PlayerPath \notin files
         /\ master = <<>>
    /\ results = <<"error", "error">> => exitCode = 1

C7_Witness ==
  /\ HlsMode
  /\ results = <<"error", "error">>
  /\ exitCode = 1
  /\ MasterPlaylistPath \notin files

\* C8: in re-encode mode the preset handed to every invocation is one of the
\* nine valid presets, and is "fast" whenever the --quality value is not one
\* of them.
C8_PresetFallback ==
  \A k \in DOMAIN invocations :
    (outputConfig.mode = "encode" /\ invocations[k].kind = "chunk") =>
      /\ invocations[k].preset \in validPresets
      /\ qualityPreset \notin validPresets => invocations[k].preset = "fast"

\* C9: with a chunk length <= 0 validation ends the process with exit code 1,
\* and neither a probe nor a transcoding invocation is made nor a chunk
\* planned.
C9_NonPositiveLength ==
  (~chunkLength.nan /\ chunkLength.val <= 0) =>
    /\ pc # "start" => (pc \in {"exit_validation", "exit_parse"} /\ exitCode = 1)
    /\ probeCalls = 0
    /\ invocations = <<>>
    /\ numChunks = Num(0)
    /\ files = {}

C9_Witness ==
  /\ options.length = <<"-", "1">>
  /\ inputFile.given /\ inputFile.exists
  /\ pc = "exit_validation"
  /\ exitCode = 1

\* what the engine extracts for an invocation when it clips at the end of a
\* stream of the given length, in ticks
EffectiveTicks(invocation, total) ==
  LET want == invocation.duration * TicksPerSecond
      left == total - invocation.seek * TicksPerSecond
  IN  IF want <= left THEN want ELSE left

\* C10: with clipping at the end of the stream every job but the last
\* planned one extracts exactly chunkLength, and the last planned job extracts
\* duration - (count - 1) * chunkLength, which is > 0 and <= chunkLength;
\* duration 125 with chunk length 60 gives (0,60), (60,60), (120,5).
C10_LastChunk ==
  (Chunking /\ PositiveInputs) =>
    /\ \A k \in DOMAIN invocations :
         LET e == EffectiveTicks(invocations[k], metadata.duration.ticks)
         IN  /\ k < numChunks.val => e = ChunkTicks
             /\ k = numChunks.val =>
                  /\ e = metadata.duration.ticks - (numChunks.val - 1) * ChunkTicks
                  /\ e > 0
                  /\ e <= ChunkTicks
    /\ ( /\ metadata.duration.ticks = 125 * TicksPerSecond
         /\ chunkLength.val = 60
         /\ pc = "done" )
       => /\ Len(invocations) = 3
          /\ [k \in 1..3 |-> invocations[k].seek] = <<0, 60, 120>>
          /\ [k \in 1..3 |->
                EffectiveTicks(invocations[k], metadata.duration.ticks)]
               = <<60 * TicksPerSecond, 60 * TicksPerSecond, 5 * TicksPerSecond>>

C10_Witness ==
  /\ Chunking /\ PositiveInputs /\ pc = "done"
  /\ Len(invocations) >= 3
  /\ EffectiveTicks(invocations[Len(invocations)], metadata.duration.ticks)
       < ChunkTicks

\* the probe has delivered its result
Probed == metadata.resolution # <<>>

\* C11: the process has exited with code 1 after every validation failure
\* (no input argument, input file not found, chunk length <= 0) and after
\* every processing error (probe failure, no duration determined, a failed
\* chunk invocation, both HLS attempts failed), and with code 0 when run()
\* has returned.
C11_ExitCodes ==
  /\ ( /\ pc # "start"
       /\ \/ ~inputFile.given
          \/ ~inputFile.exists
          \/ (~chunkLength.nan /\ chunkLength.val <= 0) )
     => (pc \in {"exit_validation", "exit_parse"} /\ exitCode = 1)
  /\ pc \in {"exit_parse", "exit_validation", "exit_probe", "exit_no_duration",
             "exit_chunk", "exit_hls"} => exitCode = 1
  /\ ( /\ Probed
       /\ \/ metadata.duration.kind = "undefined"
          \/ (metadata.duration.kind = "number" /\ metadata.duration.ticks = 0) )
     => (pc = "exit_no_duration" /\ exitCode = 1)
  /\ (\E p \in DOMAIN results :
        invocations[p].kind = "chunk" /\ results[p] = "error")
     => (pc = "exit_chunk" /\ exitCode = 1)
  /\ (HlsMode /\ results = <<"error", "error">>)
     => (pc = "exit_hls" /\ exitCode = 1)
  /\ (probeCalls = 1 /\ ~Probed /\ pc # "probe")
     => (pc = "exit_probe" /\ exitCode = 1)
  /\ pc = "done" => exitCode = 0

C11_Witness ==
  /\ pc = "exit_no_duration"
  /\ exitCode = 1
  /\ metadata.duration.kind = "number"
  /\ files = {}

\* C12: when the probed duration is not a positive number the process has
\* exited with code 1 and has created neither the output directory nor the
\* metadata file nor started an invocation.
C12_DurationChecked ==
  ( /\ Probed
    /\ ~(metadata.duration.kind = "number" /\ metadata.duration.ticks > 0) )
  => /\ exitCode = 1
     /\ files = {}
     /\ invocations = <<>>

\* C13: the output of job k (0-based) of a standard run is
\* outputDir/prefix_NNN.extension, NNN being k + 1 in decimal with zeros in
\* front up to 3 digits and no more; the first job writes ..._001.
C13_OutputName ==
  \A k \in DOMAIN invocations :
    invocations[k].kind = "chunk" =>
      LET path == invocations[k].output
          nnn  == SubSeq(path, 5, Len(path) - 2)
      IN  /\ SubSeq(path, 1, 4) = <<outputDir, "/", filePrefix, "_">>
          /\ SubSeq(path, Len(path) - 1, Len(path))
               = <<".", outputConfig.extension>>
          /\ Len(nnn) >= 3
          /\ \A d \in DOMAIN nnn : IsDigit(nnn[d])
          /\ DecimalValue(nnn) = invocations[k].index + 1
          /\ Len(nnn) > 3 => nnn[1] # "0"
          /\ invocations[k].index = 0 => nnn = <<"0", "0", "1">>

C13_Witness ==
  /\ Len(invocations) >= 12
  /\ invocations[12].kind = "chunk"
  /\ invocations[12].output =
       <<outputDir, "/", filePrefix, "_", "0", "1", "2", ".", "mp4">>

\* the RESOLUTION value of the master playlist written
MasterResolution == SubSeq(master[3], 4, Len(master[3]))

\* C14: the master playlist written consists of the four lines #EXTM3U,
\* #EXT-X-VERSION:3, #EXT-X-STREAM-INF:BANDWIDTH=2800000,RESOLUTION=<r> and
\* hls/<prefix>.m3u8 in this order, with a resolution r that is not empty.
C14_MasterPlaylist ==
  master # <<>> =>
    /\ Len(master) = 4
    /\ master[1] = <<"#EXTM3U">>
    /\ master[2] = <<"#EXT-X-VERSION:3">>
    /\ SubSeq(master[3], 1, 3)
         = <<"#EXT-X-STREAM-INF:BANDWIDTH=", "2800000", ",RESOLUTION=">>
    /\ MasterResolution # <<>>
    /\ master[4] = <<"hls/", filePrefix, ".m3u8">>

C14_Witness ==
  /\ filePrefix = "lesson"
  /\ master =
       << <<"#EXTM3U">>,
          <<"#EXT-X-VERSION:3">>,
          <<"#EXT-X-STREAM-INF:BANDWIDTH=", "2800000", ",RESOLUTION=",
            "1", "9", "2", "0", "x", "1", "0", "8", "0">>,
          <<"hls/", "lesson", ".m3u8">> >>

\* the process was ended by the SIGINT handler
Interrupted == exitCode = 0 /\ pc # "done"

\* C15: SIGINT can end the run wherever it stands after its start; the step
\* that does so changes nothing but the exit code (no file is removed, no
\* invocation started or settled), and nothing happens after it.
C15_Sigint ==
  /\ []((Running /\ pc # "start") => ENABLED Sigint)
  /\ [][ (Running /\ exitCode' = 0 /\ pc' # "done") =>
           /\ files' = files
           /\ master' = master
           /\ invocations' = invocations
           /\ results' = results
           /\ pc' = pc ]_vars
  /\ [][ Interrupted => UNCHANGED vars ]_vars

C15_Witness ==
  /\ Interrupted
  /\ pc = "chunk"
  /\ Len(invocations) >= 3
  /\ InFlight = {Len(invocations)}
  /\ invocations[1].output \in files

\* C18: after a successful HLS run of an input with a video stream the
\* RESOLUTION of the master playlist is the probed resolution, whichever
\* attempt succeeded; the default 1280x720 is only written for an input
\* without a probed resolution.
C18_ProbedResolution ==
  (HlsMode /\ master # <<>> /\ metadata.hasVideo) =>
    /\ MasterResolution = metadata.resolution
    /\ MasterResolution # <<"1280x720">>

\* the chunk files among the files written
ChunkFiles == files \ {<<outputDir>>, MetadataPath}

Ended == { k \in DOMAIN results : results[k] = "end" }

\* C19: in a standard run the chunk files present are exactly the outputs of
\* the jobs that have ended, one file each, and these jobs are the first m of
\* the sequence; after a failure at job k these are the jobs 0..k-1; no file
\* is ever removed.
C19_CompletedPrefix ==
  /\ [](StandardMode =>
          /\ ChunkFiles = { invocations[k].output : k \in Ended }
          /\ Ended = 1..Cardinality(Ended)
          /\ Cardinality(ChunkFiles) = Cardinality(Ended)
          /\ pc = "exit_chunk" =>
               /\ Ended = 1..(Len(invocations) - 1)
               /\ Cardinality(Ended) = i)
  /\ [][files \subseteq files']_vars

C19_Witness ==
  /\ StandardMode
  /\ pc = "exit_chunk"
  /\ i >= 2
  /\ Cardinality(ChunkFiles) = i

\* C20: the fallback HLS invocation is the same whatever segment length and
\* playlist type are configured: its segment length is 4 and it carries no
\* playlist type.
C20_FixedFallback ==
  \A k \in DOMAIN invocations :
    invocations[k].kind = "hls_fallback" =>
      invocations[k] =
        [ kind         |-> "hls_fallback",
          index        |-> 0,
          seek         |-> 0,
          duration     |-> 0,
          codec        |-> "libx264",
          preset       |-> "ultrafast",
          hlsTime      |-> [nan |-> FALSE, val |-> 4],
          playlistType |-> "",
          output       |-> <<outputDir, "/", "hls", "/", filePrefix, ".m3u8">> ]

C20_Witness ==
  /\ Len(invocations) = 2
  /\ invocations[2].kind = "hls_fallback"
  /\ invocations[1].hlsTime = [nan |-> FALSE, val |-> 10]
  /\ invocations[1].playlistType = "live"
  /\ invocations[2].hlsTime = [nan |-> FALSE, val |-> 4]

\* C16: every option of the README's table is accepted by the program, and
\* -f / --fast and -e / --encode select copy and re-encode mode without the
\* mode prompt.
C16_ReadmeOptions ==
  argv \in ReadmeOptions =>
    /\ pc # "exit_parse"
    /\ pc # "prompt_mode"
    /\ (argv \in {"-f", "--fast"} /\ outputConfig # NoConfig)
         => outputConfig.mode = "copy"
    /\ (argv \in {"-e", "--encode"} /\ outputConfig # NoConfig)
         => outputConfig.mode = "encode"

(***************************************************************************)
(* C21..C29                                                                *)
(***************************************************************************)

\* the inputs validateInput refuses
InvalidInput ==
  \/ ~inputFile.given
  \/ ~inputFile.exists
  \/ (~chunkLength.nan /\ chunkLength.val <= 0)

\* C21: a run whose input is missing, does not exist, or whose chunk length
\* is not positive exits with a nonzero code straight from validation: no
\* prompt is answered, no probe made, nothing is created and no invocation
\* started.  The error reported is that of the first failing check in the
\* order missing input, file existence, chunk length.
C21_ValidationFirst ==
  (pc # "start" /\ ParseArgv = NotExited /\ InvalidInput) =>
    /\ pc = "exit_validation"
    /\ exitCode # NotExited /\ exitCode # 0
    /\ outputConfig = NoConfig
    /\ probeCalls = 0
    /\ files = {}
    /\ invocations = <<>>
    /\ ~inputFile.given => validationError = "No input file specified."
    /\ validationError = "Input file not found" =>
          (inputFile.given /\ ~inputFile.exists)
    /\ validationError = "Chunk length must be greater than 0 seconds." =>
          (inputFile.given /\ inputFile.exists)

\* a run with no input file and a chunk length of 0 has ended at validation
C21_Witness ==
  /\ pc = "exit_validation"
  /\ ~inputFile.given
  /\ ~chunkLength.nan /\ chunkLength.val <= 0
  /\ validationError = "No input file specified."

\* C22: a run goes probe, then output directory and metadata file, then
\* invocation(s), then (HLS only) the artifacts.  Nothing is created and no
\* invocation started unless the probe delivered; a probe that fails ends
\* the run with a nonzero exit code, nothing created, nothing started.
C22_ProbeFirst ==
  /\ (files # {} \/ invocations # <<>>) =>
        (probeCalls = 1 /\ Probed /\ pc \notin {"probe", "exit_probe"})
  /\ invocations # <<>> => {<<outputDir>>, MetadataPath} \subseteq files
  /\ (files \ {<<outputDir>>, MetadataPath, HlsDir}) # {} =>
        \E k \in DOMAIN results : results[k] = "end"
  /\ (Artifacts \cap files) # {} =>
        (HlsMode /\ results[Len(results)] = "end")
  /\ pc = "exit_probe" =>
        /\ exitCode # NotExited /\ exitCode # 0
        /\ files = {}
        /\ invocations = <<>>
        /\ ~Probed

\* an HLS run has gone through all four stages
C22_Witness ==
  /\ pc = "done"
  /\ probeCalls = 1
  /\ MetadataPath \in files
  /\ Len(invocations) = 2
  /\ Artifacts \subseteq files

IsVideo(stream) == stream.codec_type = "video"
IsAudio(stream) == stream.codec_type = "audio"

\* C23: the probe's result takes resolution and video codec from the first
\* video stream in stream order and the audio codec from the first audio
\* stream; without a video stream the resolution is "Unknown" and hasVideo is
\* false.
C23_FirstStreams ==
  Probed =>
    LET videos == SelectSeq(probeData, IsVideo)
        audios == SelectSeq(probeData, IsAudio)
    IN  /\ metadata.hasVideo = (videos # <<>>)
        /\ videos = <<>> => metadata.resolution = <<"Unknown">>
        /\ videos # <<>> =>
              /\ metadata.videoCodec = videos[1].codec_name
              /\ metadata.resolution =
                   ToDecimal(videos[1].width) \o <<"x">>
                     \o ToDecimal(videos[1].height)
        /\ audios # <<>> => metadata.audioCodec = audios[1].codec_name

\* the probe delivered two video streams after an audio stream
C23_Witness ==
  /\ Probed
  /\ Len(SelectSeq(probeData, IsVideo)) = 2
  /\ IsAudio(probeData[1])
  /\ metadata.videoCodec = "mpeg4"

\* the interval of the stream, in ticks, an invocation extracts with clipping
IntervalStart(invocation) == invocation.seek * TicksPerSecond
IntervalEnd(invocation) ==
  IntervalStart(invocation)
    + EffectiveTicks(invocation, metadata.duration.ticks)

RECURSIVE SumEffectiveTicks(_)
SumEffectiveTicks(n) ==
  IF n = 0 THEN 0
  ELSE SumEffectiveTicks(n - 1)
         + EffectiveTicks(invocations[n], metadata.duration.ticks)

\* C24: with clipping, the intervals the jobs of a standard run extract are
\* not empty, the first starts at 0, each next one starts where the one
\* before ends (so they are pairwise disjoint), and when the run is done the
\* last ends at the probed duration: their union is [0, duration) and their
\* lengths sum to the duration.
C24_Partition ==
  (Chunking /\ PositiveInputs) =>
    /\ \A k \in DOMAIN invocations :
         /\ IntervalStart(invocations[k]) < IntervalEnd(invocations[k])
         /\ IntervalStart(invocations[k]) =
              IF k = 1 THEN 0 ELSE IntervalEnd(invocations[k - 1])
    /\ pc = "done" =>
         /\ IntervalEnd(invocations[Len(invocations)]) = metadata.duration.ticks
         /\ SumEffectiveTicks(Len(invocations)) = metadata.duration.ticks

\* a finished run of several jobs whose last one is clipped
C24_Witness ==
  /\ Chunking /\ PositiveInputs /\ pc = "done"
  /\ Len(invocations) >= 3
  /\ metadata.duration.ticks % ChunkTicks # 0
  /\ SumEffectiveTicks(Len(invocations)) = metadata.duration.ticks

\* C25: every run that gets past validateInput has a chunk length that is a
\* positive integer: a --length that is not a number ends the run at
\* validation like one that is not positive, and the number of chunks is
\* never computed from a chunk length that is not a number.
C25_NumericLength ==
  /\ pc \notin {"start", "exit_parse", "exit_validation"} =>
        (~chunkLength.nan /\ chunkLength.val > 0)
  /\ Chunking => ~chunkLength.nan

\* C26: the process has exit code 0 only when all the planned work is done:
\* in standard mode every planned chunk job has been started and has ended,
\* in HLS mode the last attempt has ended and the artifacts are written; no
\* job is pending or in flight.
C26_ExitZeroAfterWork ==
  exitCode = 0 =>
    /\ InFlight = {}
    /\ \/ /\ StandardMode
          /\ ~LoopTest(Len(invocations), numChunks)
          /\ \A k \in DOMAIN results : results[k] = "end"
       \/ /\ HlsMode
          /\ invocations # <<>>
          /\ results[Len(results)] = "end"
          /\ Artifacts \subseteq files

\* C27: with --hls the segment length of the primary HLS invocation is a
\* positive integer: the integer value of --hls-segment, or 4 when that value
\* is zero or not a number.
C27_PositiveSegment ==
  (options.hls /\ invocations # <<>>) =>
    LET given == ParseInt(options.hlsSegment)
        handed == invocations[1].hlsTime
    IN  /\ invocations[1].kind = "hls"
        /\ ~handed.nan
        /\ handed.val > 0
        /\ handed.val = IF given.nan \/ given.val = 0 THEN 4 ELSE given.val

\* Math.ceil(duration / chunkLength) in whole ticks
CeilChunks == (metadata.duration.ticks + ChunkTicks - 1) \div ChunkTicks

\* C28: when every prompt is answered and every external invocation signals
\* 'end' or 'error', a run whose probe delivered a duration > 0 and whose
\* chunk length is > 0 terminates; a standard run starts at most
\* ceil(duration / chunkLength) invocations, an HLS run at most two.
C28_Terminates ==
  /\ PositiveInputs ~> ~Running
  /\ [](PositiveInputs =>
          /\ StandardMode => Len(invocations) <= CeilChunks
          /\ HlsMode => Len(invocations) <= 2)

\* a standard run has ended after exactly ceil(duration / chunkLength)
\* invocations, more than two
C28_Witness ==
  /\ PositiveInputs /\ StandardMode
  /\ pc = "done" /\ exitCode = 0
  /\ Len(invocations) = CeilChunks
  /\ CeilChunks > 2

(***************************************************************************)
(* A standard run over a long stream: chunk length 2 on a stream of        *)
(* 2 * LongJobs seconds, copied in the input's format.  The run is         *)
(* followed from the state it is in when LongDone jobs have ended and the  *)
(* next one is awaited: the loop has started the jobs 0..LongDone in this  *)
(* order, and the outputs of the jobs ended are written.                   *)
(***************************************************************************)
LongInit ==
  /\ inputFile = [given |-> TRUE, exists |-> TRUE, ext |-> "mkv"]
  /\ argv = ""
  /\ options = [ directory |-> "ielts2go_chunks", length |-> <<"2">>,
                 prefix |-> "ielts2go_chunk", quality |-> "fast",
                 hls |-> FALSE, hlsSegment |-> DefaultHlsSegment,
                 hlsType |-> DefaultHlsType ]
  /\ validationError = ""
  /\ outputConfig = [ mode |-> "copy", extension |-> OriginalExtension,
                      segmentLength |-> NaN, playlistType |-> "" ]
  /\ probeCalls = 1
  /\ probeData = <<VideoHD, AudioAAC>>
  /\ metadata = VideoMetadata([ kind |-> "number",
                                ticks |-> 2 * LongJobs * TicksPerSecond ],
                              probeData)
  /\ master = <<>>
  /\ numChunks = NumChunks(metadata.duration, chunkLength)
  /\ i = LongDone
  /\ invocations =
       [k \in 1..(LongDone + 1) |-> ChunkInvocation(k - 1, outputConfig)]
  /\ results =
       [k \in 1..(LongDone + 1) |-> IF k <= LongDone THEN "end" ELSE "running"]
  /\ files = {<<outputDir>>, MetadataPath}
               \cup { invocations[k].output : k \in 1..LongDone }
  /\ pc = "chunk"
  /\ exitCode = NotExited

LongNext == ChunkEnd \/ ChunkError

LongSpec == LongInit /\ [][LongNext]_vars

\* C29: the jobs started in a standard run have as many different output
\* paths as there are jobs, that is, the output paths of distinct jobs are
\* distinct, also beyond job 999 where the number has more than 3 digits.
C29_DistinctPaths ==
  StandardMode =>
    Cardinality({ invocations[k].output : k \in DOMAIN invocations })
      = Len(invocations)

\* a run of more than 999 jobs is done and its last file name is longer than
\* its first
C29_Witness ==
  /\ StandardMode /\ pc = "done"
  /\ Len(invocations) = LongJobs
  /\ Len(invocations[LongJobs].output) > Len(invocations[1].output)
  /\ invocations[LongJobs].output \in files
====
